---- MODULE Spec2Model ----
(***************************************************************************)
(* A model of pygoban.GobanMaker (src/pygoban.py): the configuration       *)
(* object with its setters, the render call create_svg_file with the       *)
(* drawing steps it runs inside its `with` block, and the two pure helpers *)
(* _get_auto_star_point_pos and _get_annotation_string.                    *)
(*                                                                         *)
(* Lengths are Python floats in millimetres.  They are modelled exactly as *)
(* integers counting 1/30 mm, so that every product and quotient the code  *)
(* takes of the values used here (x*0.3, x*1.7, x/2, x/3) is an integer.   *)
(* Python values whose type the code inspects are records with a type tag. *)
(***************************************************************************)
EXTENDS Integers, Sequences, FiniteSets, TLC

VARIABLES
    size,                 \* self.size: <<cols, rows>>
    line_widths,          \* self.line_widths: <<thin, thick>>
    line_spacing,         \* self.line_spacing: <<sx, sy>>
    border_spacing,       \* self.border_spacing: <<bx, by>>
    star_point_pos,       \* self.star_point_pos: "auto", an int or a list of pairs
    star_point_diameter,  \* self.star_point_diameter
    x_annotation,         \* self.x_annotation: None or a str
    y_annotation,         \* self.y_annotation: None or a str
    font_face,            \* self.font_face
    font_size,            \* self.font_size
    pc,                   \* position of the caller: "idle" between calls, "raised"
                          \* with an exception of a setter in hand, else the
                          \* position inside create_svg_file
    surface,              \* the cairo.SVGSurface of the render: "none", "open", "closed"
    board_dims,           \* local board_width, board_height of create_svg_file
    ops,                  \* what has been drawn on the local cairo.Context, in order
    err,                  \* the exception the last call raised, or none
    ret                   \* return value of the last direct call of a helper

vars == <<size, line_widths, line_spacing, border_spacing, star_point_pos,
          star_point_diameter, x_annotation, y_annotation, font_face, font_size,
          pc, surface, board_dims, ops, err, ret>>

config == <<size, line_widths, line_spacing, border_spacing, star_point_pos,
            star_point_diameter, x_annotation, y_annotation, font_face, font_size>>

locals == <<surface, board_dims, ops>>


(* Bounds of the model.                                                    *)

\* largest number of lines per axis given to set_board_size
MaxSize == 3

\* largest number of lines per axis for the direct calls of the helpers
MaxBoard == 10

\* largest index given to a direct call of _get_annotation_string
MaxIndex == 25


(* Python values.                                                          *)

\* a.b millimetres (one decimal), in units of 1/30 mm
Mm(a, b) == 30 * a + 3 * b

Atom(t, n, s) == [t |-> t, n |-> n, s |-> s]

PyNone == Atom("NoneType", 0, "")

PyInt(n) == Atom("int", n, "")

PyFloat(n) == Atom("float", n, "")

PyStr(s) == Atom("str", 0, s)

\* a tuple of atoms
PyTuple(e) == [t |-> "tuple", n |-> 0, s |-> "", e |-> e]

\* an atom passed where a tuple may be passed too
Scalar(a) == [t |-> a.t, n |-> a.n, s |-> a.s, e |-> <<>>]

\* a value of star_point_pos: None, a str, an int, or a list of coordinate pairs
PosNone == [t |-> "NoneType", n |-> 0, s |-> "", e |-> <<>>]

PosStr(s) == [t |-> "str", n |-> 0, s |-> s, e |-> <<>>]

PosInt(n) == [t |-> "int", n |-> n, s |-> "", e |-> <<>>]

PosList(e) == [t |-> "list", n |-> 0, s |-> "", e |-> e]

NoError == [type |-> "none", msg |-> <<>>]

Raise(type, msg) == [type |-> type, msg |-> msg]

Min(s) == CHOOSE m \in {s[i] : i \in 1..Len(s)} : \A i \in 1..Len(s) : m <= s[i]

Max(s) == CHOOSE m \in {s[i] : i \in 1..Len(s)} : \A i \in 1..Len(s) : m >= s[i]

Range(s) == {s[i] : i \in 1..Len(s)}

RECURSIVE Concat(_)
Concat(ss) == IF ss = <<>> THEN <<>> ELSE Head(ss) \o Concat(Tail(ss))


(* Arguments the callers pass.                                             *)

Dims == 0..MaxSize

\* small boards, the default 9, malformed sizes and one board of 26 rows,
\* one row more than the letter style has labels
SizeArgs ==
    {Scalar(PyInt(n)) : n \in Dims \cup {9}}
    \cup {PyTuple(<<PyInt(c), PyInt(r)>>) : c \in Dims, r \in Dims}
    \cup {PyTuple(<<PyInt(3)>>),
          PyTuple(<<PyInt(3), PyInt(3), PyInt(3)>>),
          PyTuple(<<PyInt(3), PyFloat(3)>>),
          PyTuple(<<PyStr("9"), PyInt(3)>>),
          PyTuple(<<PyInt(3), PyInt(26)>>),
          Scalar(PyFloat(3)), Scalar(PyStr("9x9")), Scalar(PyNone)}

WidthArgs ==
    {<<Mm(1, 0), Mm(2, 0)>>, <<Mm(2, 0), Mm(1, 0)>>, <<Mm(3, 0), Mm(1, 0)>>}

SpacingArgs ==
    {Scalar(PyFloat(Mm(22, 0))),
     PyTuple(<<PyFloat(Mm(22, 0)), PyFloat(Mm(23, 7))>>),
     PyTuple(<<PyFloat(Mm(22, 0))>>),
     PyTuple(<<PyInt(22), PyInt(23)>>),
     Scalar(PyInt(22)), Scalar(PyNone)}

BorderArgs ==
    {Scalar(PyFloat(Mm(28, 0))),
     PyTuple(<<PyFloat(Mm(11, 0)), PyFloat(Mm(12, 0))>>),
     PyTuple(<<PyFloat(Mm(28, 0)), PyFloat(Mm(28, 0)), PyFloat(Mm(28, 0))>>),
     PyTuple(<<PyFloat(Mm(28, 0)), PyInt(28)>>),
     Scalar(PyInt(28)), Scalar(PyStr("28"))}

StyleArgs ==
    {PyNone, PyStr("arabic_numerals"), PyStr("latin_letters"), PyStr("roman")}

PosArgs ==
    {PosNone, PosStr("auto"), PosInt(2),
     PosList(<< <<2, 2>>, <<3, 4>> >>), PosList(<< <<9, 9>> >>)}

DiameterArgs == {PyNone, PyFloat(Mm(4, 0)), PyInt(Mm(10, 0))}

FontFaceArgs == {"Microsoft YaHei"}

FontSizeArgs == {8}


(* The setters.  Each returns [ok, val, err]: the value it stores or the   *)
(* exception it raises.                                                    *)

Stored(v) == [ok |-> TRUE, val |-> v, err |-> NoError]

Failed(e) == [ok |-> FALSE, val |-> <<>>, err |-> e]

isinstance(v, type) == v.t = type

board_size_checked(arg) ==
    IF isinstance(arg, "int") THEN Stored(<<arg.n, arg.n>>)
    ELSE IF isinstance(arg, "tuple") THEN
        IF Len(arg.e) # 2
        THEN Failed(Raise("ValueError", <<"Board size must be two-dimensional.">>))
        ELSE IF ~isinstance(arg.e[1], "int") \/ ~isinstance(arg.e[2], "int")
        THEN Failed(Raise("ValueError", <<"Parameter size must be a tuple of integers.">>))
        ELSE Stored(<<arg.e[1].n, arg.e[2].n>>)
    ELSE Failed(Raise("ValueError", <<"Parameter size may only be an int or a tuple.">>))

line_widths_normalised(arg) == <<Min(arg), Max(arg)>>

line_spacing_checked(arg) ==
    IF isinstance(arg, "float") THEN Stored(<<arg.n, arg.n>>)
    ELSE IF isinstance(arg, "tuple") THEN
        IF Len(arg.e) # 2
        THEN Failed(Raise("ValueError",
                          <<"Parameter line_spacing must be a tuple of two values">>))
        ELSE IF ~isinstance(arg.e[1], "float") \/ ~isinstance(arg.e[2], "float")
        THEN Failed(Raise("ValueError",
                          <<"Parameter line_spacing must be a tuple of integers.">>))
        ELSE Stored(<<arg.e[1].n, arg.e[2].n>>)
    ELSE Failed(Raise("ValueError",
                      <<"Parameter line_spacing may only be a float or a tuple.">>))

border_spacing_checked(arg) ==
    IF isinstance(arg, "float") THEN Stored(<<arg.n, arg.n>>)
    ELSE IF isinstance(arg, "tuple") THEN
        IF Len(arg.e) # 2
        THEN Failed(Raise("ValueError",
                          <<"Parameter border_spacing must be a tuple of two values">>))
        ELSE IF ~isinstance(arg.e[1], "float") \/ ~isinstance(arg.e[2], "float")
        THEN Failed(Raise("ValueError",
                          <<"Parameter border_spacing must be a tuple of integers.">>))
        ELSE Stored(<<arg.e[1].n, arg.e[2].n>>)
    ELSE Failed(Raise("ValueError",
                      <<"Parameter border_spacing may only be a float or a tuple.">>))

legal_values ==
    <<PyNone, PyStr("arabic_numerals"), PyStr("chinese_numerals"), PyStr("latin_letters")>>

\* sep.join(items): str.join raises TypeError at the first item that is no str
RECURSIVE JoinFrom(_, _, _)
JoinFrom(sep, items, i) ==
    IF i > Len(items) THEN ""
    ELSE items[i].s \o (IF i < Len(items) THEN sep ELSE "") \o JoinFrom(sep, items, i + 1)

str_join(sep, items) ==
    IF \E i \in 1..Len(items) : items[i].t # "str"
    THEN LET k == CHOOSE i \in 1..Len(items) :
                      /\ items[i].t # "str"
                      /\ \A j \in 1..(i - 1) : items[j].t = "str"
         IN Failed(Raise("TypeError",
                         <<"sequence item ", ToString(k - 1),
                           ": expected str instance, ", items[k].t, " found">>))
    ELSE Stored(JoinFrom(sep, items, 1))

\* raise ValueError(f"Annotation must be one of {', '.join(legal_values)}.")
annotation_error ==
    LET joined == str_join(", ", legal_values)
    IN IF joined.ok
       THEN Raise("ValueError", <<"Annotation must be one of ", joined.val, ".">>)
       ELSE joined.err

(* The pure helpers.                                                       *)

\* (self.size[k]-1)/2 + 1, taken only when self.size[k] is odd
Middle(n) == (n - 1) \div 2 + 1

\* the last branch taking the column count for its x coordinate
auto_star_point_pos_by_columns ==
    LET cols == size[1]
        rows == size[2]
    IN IF cols >= 3 /\ rows >= 3
       THEN << <<3, 3>>, <<3, rows - 2>>, <<cols - 2, 3>>, <<cols - 2, rows - 2>> >>
            \o (IF cols % 2 # 0 /\ rows % 2 # 0
                THEN << <<Middle(cols), Middle(rows)>> >> ELSE <<>>)
            \o (IF cols % 2 # 0
                THEN << <<Middle(cols), 3>>, <<Middle(cols), rows - 2>> >> ELSE <<>>)
            \o (IF rows % 2 # 0
                THEN << <<3, Middle(rows)>>, <<cols - 2, Middle(rows)>> >> ELSE <<>>)
       ELSE <<>>

_get_auto_star_point_pos ==
    LET cols == size[1]
        rows == size[2]
    IN IF cols >= 3 /\ rows >= 3
       THEN << <<3, 3>>, <<3, rows - 2>>, <<cols - 2, 3>>, <<cols - 2, rows - 2>> >>
            \o (IF cols % 2 # 0 /\ rows % 2 # 0
                THEN << <<Middle(cols), Middle(rows)>> >> ELSE <<>>)
            \o (IF cols % 2 # 0
                THEN << <<Middle(cols), 3>>, <<Middle(cols), rows - 2>> >> ELSE <<>>)
            \o (IF rows % 2 # 0
                THEN << <<3, Middle(rows)>>, <<rows - 2, Middle(rows)>> >> ELSE <<>>)
       ELSE <<>>

DecimalDigits == <<"0", "1", "2", "3", "4", "5", "6", "7", "8", "9">>

\* str(n) for an int n >= 0
RECURSIVE str(_)
str(n) == IF n < 10 THEN DecimalDigits[n + 1]
          ELSE str(n \div 10) \o DecimalDigits[(n % 10) + 1]

ascii_uppercase ==
    <<"A", "B", "C", "D", "E", "F", "G", "H", "I", "J", "K", "L", "M",
      "N", "O", "P", "Q", "R", "S", "T", "U", "V", "W", "X", "Y", "Z">>

\* s.replace(old, ""), s a sequence of characters and old one character
\* the string left as it is
replace_nothing(s, old) == s

replace_with_empty(s, old) == SelectSeq(s, LAMBDA c : c # old)

\* the Chinese digits 1..9 and the ten, each written as its Unicode code point
ChineseDigits ==
    <<"U+4E00", "U+4E8C", "U+4E09", "U+56DB", "U+4E94",
      "U+516D", "U+4E03", "U+516B", "U+4E5D">>

ChineseTen == "U+5341"

\* cn2an.an2cn(n) in its default (low) mode, for 1 <= n <= 99
an2cn(n) ==
    LET tens == n \div 10
        ones == n % 10
    IN (IF tens = 0 THEN ""
        ELSE IF tens = 1 THEN ChineseTen
        ELSE ChineseDigits[tens] \o ChineseTen)
       \o (IF ones = 0 THEN "" ELSE ChineseDigits[ones])

_get_annotation_string(index, annotation_style) ==
    IF annotation_style = PyStr("arabic_numerals") THEN Stored(str(index + 1))
    ELSE IF annotation_style = PyStr("latin_letters") THEN
        LET letters == replace_with_empty(ascii_uppercase, "I")
        IN IF index + 1 > Len(letters)
           THEN Failed(Raise("IndexError", <<"string index out of range">>))
           ELSE Stored(letters[index + 1])
    ELSE IF annotation_style = PyStr("chinese_numerals") THEN Stored(an2cn(index + 1))
    ELSE Failed(Raise("ValueError",
                      <<"Unknown annotation style '",
                        IF annotation_style.t = "str" THEN annotation_style.s ELSE "None",
                        "' specified.">>))

(* The drawing steps.  An entry of ops is one stroke or one text shown on  *)
(* the context.  Settings of the context other than the line width (line   *)
(* cap, colour, font) take no part in any coordinate and are left out.     *)

Stroke(kind, w, x1, y1, x2, y2) ==
    [kind |-> kind, w |-> w, x1 |-> x1, y1 |-> y1, x2 |-> x2, y2 |-> y2,
     r |-> 0, s |-> "", theta |-> 0]

\* _add_text: the text, its anchor and its rotation in units of math.pi
Text(s, x, y, theta) ==
    [kind |-> "text", w |-> 0, x1 |-> x, y1 |-> y, x2 |-> x, y2 |-> y,
     r |-> 0, s |-> s, theta |-> theta]

\* the rounded rectangle at (x, y) of the given width, height and radius
RoundRect(w, x, y, width, height, r) ==
    [kind |-> "border", w |-> w, x1 |-> x, y1 |-> y, x2 |-> x + width, y2 |-> y + height,
     r |-> r, s |-> "", theta |-> 0]

\* one spacing per line instead of one per gap between lines
board_dimensions_per_line ==
    <<size[1] * line_spacing[1] + 2 * border_spacing[1],
      size[2] * line_spacing[2] + 2 * border_spacing[2]>>

_get_board_dimensions ==
    <<(size[1] - 1) * line_spacing[1] + 2 * border_spacing[1],
      (size[2] - 1) * line_spacing[2] + 2 * border_spacing[2]>>

\* the width of grid line i of n: i in [0, n-1] takes line_widths[1]
\* only the first line of an axis taken as its border
first_line_width(i, n) ==
    IF i = 0 THEN line_widths[2] ELSE line_widths[1]

current_line_width(i, n) ==
    IF i \in {0, n - 1} THEN line_widths[2] ELSE line_widths[1]

_draw_grid ==
    LET y_lower_border == border_spacing[2]
        y_upper_border == border_spacing[2] + (size[2] - 1) * line_spacing[2]
        x_lower_border == border_spacing[1]
        x_upper_border == border_spacing[1] + (size[1] - 1) * line_spacing[1]
        vertical == [k \in 1..size[1] |->
            LET x_pos == border_spacing[1] + (k - 1) * line_spacing[1]
            IN Stroke("vline", current_line_width(k - 1, size[1]),
                      x_pos, y_lower_border, x_pos, y_upper_border)]
        horizontal == [k \in 1..size[2] |->
            LET y_pos == border_spacing[2] + (k - 1) * line_spacing[2]
            IN Stroke("hline", current_line_width(k - 1, size[2]),
                      x_lower_border, y_pos, x_upper_border, y_pos)]
    IN vertical \o horizontal

\* context.set_line_width(4) in _draw_star_points
star_line_width == Mm(4, 0)

_draw_star_points ==
    LET pos == IF star_point_pos = PosStr("auto")
               THEN PosList(_get_auto_star_point_pos)
               ELSE star_point_pos
    IN IF pos.t = "int"
       THEN Failed(Raise("TypeError", <<"'int' object is not iterable">>))
       ELSE Stored([k \in 1..Len(pos.e) |->
                LET x_pos == border_spacing[1] + line_spacing[1] * (pos.e[k][1] - 1)
                    y_pos == border_spacing[2] + line_spacing[2] * (pos.e[k][2] - 1)
                IN Stroke("star", star_line_width, x_pos, y_pos, x_pos, y_pos)])

\* x * 0.3 and x * (2 - 0.3), center_factor = 0.3
center_factor_times(x) == (x * 3) \div 10

two_minus_center_factor_times(x) == (x * 17) \div 10

x_annotation_texts ==
    LET y_lower_border == center_factor_times(border_spacing[2])
        y_upper_border == two_minus_center_factor_times(border_spacing[2])
                          + (size[2] - 1) * line_spacing[2]
        labels == [k \in 1..size[1] |-> _get_annotation_string(k - 1, x_annotation)]
    IN IF x_annotation = PyNone THEN Stored(<<>>)
       ELSE IF \E k \in 1..size[1] : ~labels[k].ok
       THEN Failed(labels[CHOOSE k \in 1..size[1] :
                              ~labels[k].ok /\ \A j \in 1..(k - 1) : labels[j].ok].err)
       ELSE Stored(Concat([k \in 1..size[1] |->
                LET x_pos == border_spacing[1] + (k - 1) * line_spacing[1]
                IN <<Text(labels[k].val, x_pos, y_lower_border, 1),
                     Text(labels[k].val, x_pos, y_upper_border, 0)>>]))

y_annotation_texts ==
    LET x_lower_border == center_factor_times(border_spacing[1])
        x_upper_border == two_minus_center_factor_times(border_spacing[1])
                          + (size[1] - 1) * line_spacing[1]
        labels == [k \in 1..size[2] |->
                      _get_annotation_string(size[2] - (k - 1) - 1, y_annotation)]
    IN IF y_annotation = PyNone THEN Stored(<<>>)
       ELSE IF \E k \in 1..size[2] : ~labels[k].ok
       THEN Failed(labels[CHOOSE k \in 1..size[2] :
                              ~labels[k].ok /\ \A j \in 1..(k - 1) : labels[j].ok].err)
       ELSE Stored(Concat([k \in 1..size[2] |->
                LET y_pos == border_spacing[2] + (k - 1) * line_spacing[2]
                IN <<Text(labels[k].val, x_lower_border, y_pos, 0),
                     Text(labels[k].val, x_upper_border, y_pos, 1)>>]))

_draw_annotations ==
    IF ~x_annotation_texts.ok THEN x_annotation_texts
    ELSE IF ~y_annotation_texts.ok THEN y_annotation_texts
    ELSE Stored(x_annotation_texts.val \o y_annotation_texts.val)

_draw_border ==
    LET line_width == line_widths[2]
        x == line_width \div 2
        y == line_width \div 2
        width == _get_board_dimensions[1] - line_width
        height == _get_board_dimensions[2] - line_width
        r == line_spacing[1] \div 3
    IN <<RoundRect(line_width, x, y, width, height, r)>>

(* The object after GobanMaker(): every parameter at its default.          *)

NoReturn == [fn |-> "none", index |-> 0, style |-> PyNone, r |-> Stored(<<>>)]

Defaults ==
    /\ line_widths = line_widths_normalised(<<Mm(1, 0), Mm(2, 0)>>)
    /\ line_spacing = <<Mm(22, 0), Mm(23, 7)>>
    /\ border_spacing = <<Mm(11, 0), Mm(12, 0)>>
    /\ x_annotation = PyNone
    /\ y_annotation = PyNone
    /\ star_point_pos = PosStr("auto")
    /\ star_point_diameter = Mm(4, 0)
    /\ font_face = "Microsoft YaHei"
    /\ font_size = 8
    /\ pc = "idle"
    /\ surface = "none"
    /\ board_dims = <<0, 0>>
    /\ ops = <<>>
    /\ err = NoError
    /\ ret = NoReturn

Init ==
    /\ size = <<9, 9>>
    /\ Defaults

(* The setters as steps of the caller.  A setter that raises stores        *)
(* nothing after the raise and leaves the caller with the exception        *)
(* (pc = "raised", err), which the caller then handles.                    *)

after_call(e) == IF e = NoError THEN "idle" ELSE "raised"

set_board_size(arg) ==
    /\ pc = "idle"
    /\ LET r == board_size_checked(arg)
       IN /\ size' = IF r.ok THEN r.val ELSE size
          /\ err' = r.err
          /\ pc' = after_call(r.err)
    /\ UNCHANGED <<line_widths, line_spacing, border_spacing, star_point_pos,
                   star_point_diameter, x_annotation, y_annotation, font_face,
                   font_size, locals, ret>>

set_line_widths(arg) ==
    /\ pc = "idle"
    /\ line_widths' = line_widths_normalised(arg)
    /\ err' = NoError
    /\ pc' = "idle"
    /\ UNCHANGED <<size, line_spacing, border_spacing, star_point_pos,
                   star_point_diameter, x_annotation, y_annotation, font_face,
                   font_size, locals, ret>>

\* the attribute after `if arg is not None: self.attr = arg`
\* the argument stored whether or not it is None
stored_even_if_none(arg, old, new) == new

unless_none(arg, old, new) == IF arg.t # "NoneType" THEN new ELSE old

set_star_point_settings(pos, diameter) ==
    /\ pc = "idle"
    /\ star_point_pos' = unless_none(pos, star_point_pos, pos)
    /\ star_point_diameter' = unless_none(diameter, star_point_diameter, diameter.n)
    /\ err' = NoError
    /\ pc' = "idle"
    /\ UNCHANGED <<size, line_widths, line_spacing, border_spacing, x_annotation,
                   y_annotation, font_face, font_size, locals, ret>>

set_line_spacing(arg) ==
    /\ pc = "idle"
    /\ LET r == line_spacing_checked(arg)
       IN /\ line_spacing' = IF r.ok THEN r.val ELSE line_spacing
          /\ err' = r.err
          /\ pc' = after_call(r.err)
    /\ UNCHANGED <<size, line_widths, border_spacing, star_point_pos,
                   star_point_diameter, x_annotation, y_annotation, font_face,
                   font_size, locals, ret>>

set_border_spacing(arg) ==
    /\ pc = "idle"
    /\ LET r == border_spacing_checked(arg)
       IN /\ border_spacing' = IF r.ok THEN r.val ELSE border_spacing
          /\ err' = r.err
          /\ pc' = after_call(r.err)
    /\ UNCHANGED <<size, line_widths, line_spacing, star_point_pos,
                   star_point_diameter, x_annotation, y_annotation, font_face,
                   font_size, locals, ret>>

\* `v in legal_values`
is_legal(v) == \E i \in 1..Len(legal_values) : legal_values[i] = v

set_grid_annotation_style(x, y) ==
    /\ pc = "idle"
    /\ IF is_legal(x)
       THEN /\ x_annotation' = x
            /\ IF is_legal(y)
               THEN y_annotation' = y /\ err' = NoError
               ELSE y_annotation' = y_annotation /\ err' = annotation_error
       ELSE /\ x_annotation' = x_annotation
            /\ y_annotation' = y_annotation
            /\ err' = annotation_error
    /\ pc' = after_call(err')
    /\ UNCHANGED <<size, line_widths, line_spacing, border_spacing, star_point_pos,
                   star_point_diameter, font_face, font_size, locals, ret>>

set_font_face(arg) ==
    /\ pc = "idle"
    /\ font_face' = arg
    /\ err' = NoError
    /\ pc' = "idle"
    /\ UNCHANGED <<size, line_widths, line_spacing, border_spacing, star_point_pos,
                   star_point_diameter, x_annotation, y_annotation, font_size,
                   locals, ret>>

set_font_size(arg) ==
    /\ pc = "idle"
    /\ font_size' = arg
    /\ err' = NoError
    /\ pc' = "idle"
    /\ UNCHANGED <<size, line_widths, line_spacing, border_spacing, star_point_pos,
                   star_point_diameter, x_annotation, y_annotation, font_face,
                   locals, ret>>

(* create_svg_file.  The surface is the context manager of the `with`      *)
(* block: leaving the block, by its end or by an exception, runs the       *)
(* surface's __exit__, which finishes (closes) it.  The call then ends     *)
(* (pc = "return"), and its locals are dropped.                            *)

\* the surface once the `with` block is left (raised: by an exception)
\* the surface finished only at the end of the block, not by an exception
surface_finished_at_end_only(raised) == IF raised THEN "open" ELSE "closed"

surface_after_with(raised) == "closed"

\* an exception leaves the `with` block and ends the call
Propagate(e) ==
    /\ surface' = surface_after_with(TRUE)
    /\ pc' = "return"
    /\ err' = e
    /\ UNCHANGED <<board_dims, ops>>

\* board dimensions, cairo.SVGSurface(file_path, board_width, board_height)
\* and cairo.Context(surface)
create_svg_file ==
    /\ pc = "idle"
    /\ board_dims' = _get_board_dimensions
    /\ surface' = "open"
    /\ pc' = "draw_grid"
    /\ ops' = <<>>
    /\ err' = NoError
    /\ UNCHANGED <<config, ret>>

DrawGrid ==
    /\ pc = "draw_grid"
    /\ ops' = ops \o _draw_grid
    /\ pc' = "draw_star_points"
    /\ UNCHANGED <<config, surface, board_dims, err, ret>>

DrawStarPoints ==
    /\ pc = "draw_star_points"
    /\ LET r == _draw_star_points
       IN IF r.ok
          THEN /\ ops' = ops \o r.val
               /\ pc' = "draw_annotations"
               /\ UNCHANGED <<surface, board_dims, err>>
          ELSE Propagate(r.err)
    /\ UNCHANGED <<config, ret>>

DrawAnnotations ==
    /\ pc = "draw_annotations"
    /\ LET r == _draw_annotations
       IN IF r.ok
          THEN /\ ops' = ops \o r.val
               /\ pc' = "draw_border"
               /\ UNCHANGED <<surface, board_dims, err>>
          ELSE Propagate(r.err)
    /\ UNCHANGED <<config, ret>>

DrawBorder ==
    /\ pc = "draw_border"
    /\ ops' = ops \o _draw_border
    /\ pc' = "exit"
    /\ UNCHANGED <<config, surface, board_dims, err, ret>>

\* the end of the `with` block
ExitWith ==
    /\ pc = "exit"
    /\ surface' = surface_after_with(FALSE)
    /\ pc' = "return"
    /\ UNCHANGED <<config, board_dims, ops, err, ret>>

\* the call is over: its locals are gone, the caller has handled its outcome
Return ==
    /\ pc = "return"
    /\ pc' = "idle"
    /\ surface' = "none"
    /\ board_dims' = <<0, 0>>
    /\ ops' = <<>>
    /\ err' = NoError
    /\ UNCHANGED <<config, ret>>

\* the caller handles the exception of a setter and goes on
Handle ==
    /\ pc = "raised"
    /\ pc' = "idle"
    /\ err' = NoError
    /\ UNCHANGED <<config, locals, ret>>

Next ==
    \/ \E arg \in SizeArgs : set_board_size(arg)
    \/ \E arg \in WidthArgs : set_line_widths(arg)
    \/ \E pos \in PosArgs, diameter \in DiameterArgs : set_star_point_settings(pos, diameter)
    \/ \E arg \in SpacingArgs : set_line_spacing(arg)
    \/ \E arg \in BorderArgs : set_border_spacing(arg)
    \/ \E x \in StyleArgs, y \in StyleArgs : set_grid_annotation_style(x, y)
    \/ \E arg \in FontFaceArgs : set_font_face(arg)
    \/ \E arg \in FontSizeArgs : set_font_size(arg)
    \/ create_svg_file
    \/ DrawGrid
    \/ DrawStarPoints
    \/ DrawAnnotations
    \/ DrawBorder
    \/ ExitWith
    \/ Return
    \/ Handle

Spec == Init /\ [][Next]_vars

\* create_svg_file is synchronous, straight-line code: once called, it runs on
\* to its return
RenderStep ==
    DrawGrid \/ DrawStarPoints \/ DrawAnnotations \/ DrawBorder \/ ExitWith \/ Return

FairSpec == Spec /\ WF_vars(RenderStep)

(* Direct calls of the two pure helpers, on an object of any board size.   *)

Boards == (0..MaxBoard) \X (0..MaxBoard)

Indices == 0..MaxIndex

HelperStyles == StyleArgs \cup {PyStr("chinese_numerals")}

InitFn ==
    /\ size \in Boards
    /\ Defaults

call_get_auto_star_point_pos ==
    /\ ret' = [fn |-> "_get_auto_star_point_pos", index |-> 0, style |-> PyNone,
               r |-> Stored(_get_auto_star_point_pos)]
    /\ UNCHANGED <<config, pc, locals, err>>

call_get_annotation_string(index, annotation_style) ==
    /\ ret' = [fn |-> "_get_annotation_string", index |-> index,
               style |-> annotation_style,
               r |-> _get_annotation_string(index, annotation_style)]
    /\ UNCHANGED <<config, pc, locals, err>>

NextFn ==
    \/ call_get_auto_star_point_pos
    \/ \E index \in Indices, style \in HelperStyles :
          call_get_annotation_string(index, style)

SpecFn == InitFn /\ [][NextFn]_vars

(* Canvas size.                                                            *)

\* C1: for every grid size, line spacing and border spacing the object holds,
\* _get_board_dimensions is ((cols-1)*sx + 2*bx, (rows-1)*sy + 2*by), and the
\* surface of a running create_svg_file was created with these two values.
C1_CanvasSize ==
    LET width == (size[1] - 1) * line_spacing[1] + 2 * border_spacing[1]
        height == (size[2] - 1) * line_spacing[2] + 2 * border_spacing[2]
    IN /\ _get_board_dimensions = <<width, height>>
       /\ surface # "none" => board_dims = <<width, height>>

\* a 3x2 board, spacing 22/23.7, border 28/28: 2*22 + 56 by 23.7 + 56
C1_Witness ==
    /\ pc = "draw_grid"
    /\ surface = "open"
    /\ size = <<3, 2>>
    /\ line_spacing = <<Mm(22, 0), Mm(23, 7)>>
    /\ border_spacing = <<Mm(28, 0), Mm(28, 0)>>
    /\ board_dims = <<Mm(100, 0), Mm(79, 7)>>

(* Automatic star points.                                                  *)

ReferenceStarPoints(cols, rows) ==
    LET x_mid == (cols - 1) \div 2 + 1
        y_mid == (rows - 1) \div 2 + 1
        odd(n) == n % 2 = 1
    IN IF cols < 3 \/ rows < 3 THEN {}
       ELSE {<<3, 3>>, <<3, rows - 2>>, <<cols - 2, 3>>, <<cols - 2, rows - 2>>}
            \cup (IF odd(cols) /\ odd(rows) THEN {<<x_mid, y_mid>>} ELSE {})
            \cup (IF odd(cols) THEN {<<x_mid, 3>>, <<x_mid, rows - 2>>} ELSE {})
            \cup (IF odd(rows) THEN {<<3, y_mid>>, <<rows - 2, y_mid>>} ELSE {})

PositiveSize(arg) ==
    \/ arg.t = "int" /\ arg.n > 0
    \/ /\ arg.t = "tuple"
       /\ Len(arg.e) = 2
       /\ \A k \in 1..2 : arg.e[k].t = "int" /\ arg.e[k].n > 0

\* C3: set_board_size raises ValueError for every size that is not a positive
\* integer or a pair of positive integers (a non-integer, a tuple of another
\* length, a non-integer element, a zero dimension), and stores no such value.
C3_InvalidSizeRaises ==
    [][\A arg \in SizeArgs :
          (set_board_size(arg) /\ ~PositiveSize(arg)) =>
              (err'.type = "ValueError" /\ size' = size)]_vars

RecognisedStyles ==
    {PyNone, PyStr("arabic_numerals"), PyStr("chinese_numerals"), PyStr("latin_letters")}

\* the message has the text t as one of its parts
Names(msg, t) == \E k \in 1..Len(msg) : msg[k] = t

\* C4: set_grid_annotation_style given an x_annotation or y_annotation outside
\* the four recognised values raises ValueError at that call, with a message
\* that names the unrecognised style.
C4_UnknownStyleRaises ==
    [][\A x \in StyleArgs, y \in StyleArgs :
          (set_grid_annotation_style(x, y)
              /\ (x \notin RecognisedStyles \/ y \notin RecognisedStyles)) =>
              /\ err'.type = "ValueError"
              /\ \E bad \in {x, y} \ RecognisedStyles : Names(err'.msg, bad.s)]_vars

(* Star points.                                                            *)

\* the physical position of grid point g
MarkerAt(g) ==
    <<border_spacing[1] + line_spacing[1] * (g[1] - 1),
      border_spacing[2] + line_spacing[2] * (g[2] - 1)>>

\* the positions of the markers drawn so far
MarkersDrawn == {<<ops[k].x1, ops[k].y1>> : k \in {j \in 1..Len(ops) : ops[j].kind = "star"}}

\* the n x n corner points, the centre and the n x centre side points
IntStarPoints(n, cols, rows) ==
    LET x_mid == (cols - 1) \div 2 + 1
        y_mid == (rows - 1) \div 2 + 1
        far_x == cols - n + 1
        far_y == rows - n + 1
    IN {<<n, n>>, <<n, far_y>>, <<far_x, n>>, <<far_x, far_y>>}
       \cup (IF cols % 2 = 1 /\ rows % 2 = 1 THEN {<<x_mid, y_mid>>} ELSE {})
       \cup (IF cols % 2 = 1 THEN {<<x_mid, n>>, <<x_mid, far_y>>} ELSE {})
       \cup (IF rows % 2 = 1 THEN {<<n, y_mid>>, <<far_x, y_mid>>} ELSE {})

\* C5: with star_point_pos an integer n, create_svg_file does not fail: it ends
\* without an exception, having drawn the markers of the n x n corner points,
\* the centre and the n x centre side points.
C5_IntStarPointsRendered ==
    (pc = "return" /\ star_point_pos.t = "int") =>
        /\ err = NoError
        /\ MarkersDrawn =
              {MarkerAt(g) : g \in IntStarPoints(star_point_pos.n, size[1], size[2])}

\* C6: every star-point marker is stroked with the configured
\* star_point_diameter as its line width.
C6_MarkerDiameter ==
    \A k \in 1..Len(ops) : ops[k].kind = "star" => ops[k].w = star_point_diameter

\* the positions of the last n entries of a drawing
LastPositions(drawing, n) ==
    [k \in 1..n |-> <<drawing[Len(drawing) - n + k].x1, drawing[Len(drawing) - n + k].y1>>]

\* C7: an explicit list L given to set_star_point_settings is read back as L,
\* stays L over every later call that gives no new star_point_pos, and the
\* render draws one marker per element of L, in order, at
\* (bx + sx*(gx-1), by + sy*(gy-1)), with no automatic placement.
C7_ExplicitStarPoints ==
    [][/\ \A pos \in PosArgs, diameter \in DiameterArgs :
             (set_star_point_settings(pos, diameter) /\ pos.t = "list") =>
                 star_point_pos' = pos
       /\ (/\ star_point_pos.t = "list"
           /\ ~\E pos \in PosArgs \ {PosNone}, diameter \in DiameterArgs :
                  set_star_point_settings(pos, diameter)) =>
              star_point_pos' = star_point_pos
       /\ (pc = "draw_star_points" /\ pc' # pc /\ star_point_pos.t = "list") =>
              LET L == star_point_pos.e
              IN /\ pc' = "draw_annotations"
                 /\ Len(ops') = Len(ops) + Len(L)
                 /\ SubSeq(ops', 1, Len(ops)) = ops
                 /\ \A k \in 1..Len(L) : ops'[Len(ops) + k].kind = "star"
                 /\ LastPositions(ops', Len(L)) = [k \in 1..Len(L) |-> MarkerAt(L[k])]
      ]_vars

\* the list [(2,2), (3,4)] drawn on a 3x3 board that would take (3,3) by itself
C7_Witness ==
    /\ pc = "draw_annotations"
    /\ size = <<3, 3>>
    /\ star_point_pos = PosList(<< <<2, 2>>, <<3, 4>> >>)
    /\ border_spacing = <<Mm(11, 0), Mm(12, 0)>>
    /\ line_spacing = <<Mm(22, 0), Mm(23, 7)>>
    /\ LastPositions(ops, 2) = << <<Mm(33, 0), Mm(35, 7)>>, <<Mm(55, 0), Mm(83, 1)>> >>

(* Annotation strings.                                                     *)

LatinCall(index) ==
    /\ ret.fn = "_get_annotation_string"
    /\ ret.style = PyStr("latin_letters")
    /\ ret.index = index

\* C8: with the letter style, _get_annotation_string returns "A" for the
\* 0-based index 0 and "J" for the 0-based index 7.
C8_LetterSevenIsJ ==
    /\ LatinCall(0) => ret.r = Stored("A")
    /\ LatinCall(7) => ret.r = Stored("J")

\* C8, amended: with the letter style, _get_annotation_string returns "A" for
\* the 0-based index 0, "H" for index 7 and "J" for index 8; "I" is returned
\* for no index.
C8_LetterEightIsJ ==
    /\ LatinCall(0) => ret.r = Stored("A")
    /\ LatinCall(7) => ret.r = Stored("H")
    /\ LatinCall(8) => ret.r = Stored("J")
    /\ (ret.fn = "_get_annotation_string" /\ ret.style = PyStr("latin_letters")) =>
           ret.r # Stored("I")

C8_Witness ==
    /\ LatinCall(8)
    /\ ret.r.ok
    /\ ret.r.val = "J"

(* Grid lines.                                                             *)

Min2(a, b) == IF a <= b THEN a ELSE b

Max2(a, b) == IF a <= b THEN b ELSE a

\* the drawing is the grid of the board, with the given thin and thick widths
ExpectedGrid(drawing, thin, thick) ==
    LET cols == size[1]
        rows == size[2]
        bx == border_spacing[1]
        by == border_spacing[2]
        sx == line_spacing[1]
        sy == line_spacing[2]
        width(i, n) == IF i = 0 \/ i = n - 1 THEN thick ELSE thin
    IN /\ Len(drawing) = cols + rows
       /\ \A i \in 0..(cols - 1) :
             drawing[i + 1] = Stroke("vline", width(i, cols),
                                     bx + i * sx, by, bx + i * sx, by + (rows - 1) * sy)
       /\ \A i \in 0..(rows - 1) :
             drawing[cols + i + 1] = Stroke("hline", width(i, rows),
                                            bx, by + i * sy, bx + (cols - 1) * sx, by + i * sy)

\* C9: set_line_widths stores (min, max) of the two widths it is given, and
\* _draw_grid strokes cols vertical and rows horizontal lines, line i of an
\* axis spanning the other axis from its first to its last line, thick iff i
\* is 0 or size-1 and thin otherwise.
C9_GridLines ==
    [][/\ \A arg \in WidthArgs :
             set_line_widths(arg) =>
                 line_widths' = <<Min2(arg[1], arg[2]), Max2(arg[1], arg[2])>>
       /\ (pc = "draw_grid" /\ pc' # pc) =>
             /\ line_widths[1] <= line_widths[2]
             /\ ExpectedGrid(ops', line_widths[1], line_widths[2])
      ]_vars

\* a 3x3 board after set_line_widths((3.0, 1.0)): thick, thin, thick
C9_Witness ==
    /\ pc = "draw_star_points"
    /\ size = <<3, 3>>
    /\ line_widths = <<Mm(1, 0), Mm(3, 0)>>
    /\ Len(ops) = 6
    /\ <<ops[1].w, ops[2].w, ops[3].w>> = <<Mm(3, 0), Mm(1, 0), Mm(3, 0)>>
    /\ <<ops[4].w, ops[5].w, ops[6].w>> = <<Mm(3, 0), Mm(1, 0), Mm(3, 0)>>

(* The surface of a render.                                                *)

InsideWith == {"draw_grid", "draw_star_points", "draw_annotations", "draw_border", "exit"}

\* the grid, the star points, the annotations and the border, in this order
DrawnInOrder ==
    /\ _draw_star_points.ok
    /\ _draw_annotations.ok
    /\ ops = _draw_grid \o _draw_star_points.val \o _draw_annotations.val \o _draw_border

\* C10: a surface opened by create_svg_file is open only inside the `with`
\* block, and the call always comes to its end with the surface closed: either
\* returning with grid, star points, annotations and border drawn in this
\* order, or propagating the exception of one of these steps.
C10_SurfaceClosed ==
    /\ [](surface = "open" <=> pc \in InsideWith)
    /\ [](pc = "return" => (surface = "closed" /\ (err = NoError => DrawnInOrder)))
    /\ (surface = "open" ~> (pc = "return" /\ surface = "closed"))

\* the call left by the TypeError of _draw_star_points, after the grid
C10_Witness ==
    /\ pc = "return"
    /\ surface = "closed"
    /\ err = Raise("TypeError", <<"'int' object is not iterable">>)
    /\ ops = _draw_grid
    /\ ops # <<>>

(* Annotations of the horizontal lines.                                    *)

TextsIn(drawing) == SelectSeq(drawing, LAMBDA op : op.kind = "text")

\* the texts of the horizontal lines: those after the two per vertical line
YTextsIn(drawing) ==
    LET skipped == IF x_annotation = PyNone THEN 0 ELSE 2 * size[1]
    IN SubSeq(TextsIn(drawing), skipped + 1, Len(TextsIn(drawing)))

\* line k (0..rows-1, from y = border_y) has exactly two texts, both the label
\* of index rows-k-1 and both at its y: left with rotation 0, right with pi;
\* numerals read rows-k, so 1..rows each mark one line and 1 marks the last
YLabelsPlaced(texts) ==
    LET cols == size[1]
        rows == size[2]
        left == (border_spacing[1] * 3) \div 10
        right == (border_spacing[1] * 17) \div 10 + (cols - 1) * line_spacing[1]
        label(k) == IF y_annotation = PyStr("arabic_numerals")
                    THEN ToString(rows - k)
                    ELSE _get_annotation_string(rows - k - 1, y_annotation).val
    IN /\ Len(texts) = 2 * rows
       /\ \A k \in 0..(rows - 1) :
             LET y == border_spacing[2] + k * line_spacing[2]
             IN /\ texts[2 * k + 1] = Text(label(k), left, y, 0)
                /\ texts[2 * k + 2] = Text(label(k), right, y, 1)
       /\ y_annotation = PyStr("arabic_numerals") =>
             /\ \A n \in 1..rows :
                   Cardinality({k \in 0..(rows - 1) : texts[2 * k + 1].s = ToString(n)}) = 1
             /\ rows >= 1 => texts[2 * rows].s = "1"

\* C11: with y_annotation set, _draw_annotations (once past the vertical
\* lines) gives every horizontal line at offset k exactly two copies of the
\* label of the 0-based index rows-k-1, at the y of the line: at the left
\* border with rotation 0 and at the right border with rotation pi; with the
\* numeral style the text is rows-k.
C11_YAnnotations ==
    [][(/\ pc = "draw_annotations"
        /\ pc' # pc
        /\ y_annotation # PyNone
        /\ x_annotation_texts.ok) =>
           /\ pc' = "draw_border"
           /\ YLabelsPlaced(YTextsIn(ops'))]_vars

\* C11 on the boards whose horizontal lines all have a label in the style
C11_YAnnotationsWhereLabelled ==
    (pc = "draw_border" /\ y_annotation # PyNone) => YLabelsPlaced(YTextsIn(ops))

(* Automatic star points and the board.                                    *)

\* C12: on a board of at least 3 columns and 3 rows every star point (gx, gy)
\* of _get_auto_star_point_pos is an intersection of the board:
\* 1 <= gx <= cols and 1 <= gy <= rows.
C12_StarPointsOnBoard ==
    (/\ ret.fn = "_get_auto_star_point_pos"
     /\ size[1] >= 3
     /\ size[2] >= 3) =>
        \A p \in Range(ret.r.val) : p[1] \in 1..size[1] /\ p[2] \in 1..size[2]

(* Setters that fail.                                                      *)

\* a call of a setter that raised: set_board_size, set_line_spacing,
\* set_border_spacing and set_grid_annotation_style are the setters that can
FailedSetterCall == pc = "idle" /\ pc' = "raised"

\* C13: a setter call that raises leaves size, line_widths, line_spacing,
\* border_spacing, x_annotation, y_annotation and the star-point settings
\* as they were before the call.
C13_FailedSetterChangesNothing ==
    [][FailedSetterCall =>
          UNCHANGED <<size, line_widths, line_spacing, border_spacing,
                      x_annotation, y_annotation, star_point_pos,
                      star_point_diameter>>]_vars

\* C13 for everything but x_annotation, the one attribute a failed call changes
C13_FailedSetterKeepsAllButXAnnotation ==
    [][FailedSetterCall =>
          UNCHANGED <<size, line_widths, line_spacing, border_spacing,
                      y_annotation, star_point_pos, star_point_diameter>>]_vars

====
